---------------------------- MODULE Spec2Model ----------------------------
(***************************************************************************)
(* FROC evaluation of a breast-mass detector (full_code/compute_FROC.py):  *)
(* post, compute_FROC and the accumulation loop of main.                   *)
(*                                                                         *)
(* Numbers.  A logit is kept as the probability it stands for, in units of *)
(* 0.0001: prob2logit (ln p - ln(1-p)) is strictly increasing, so the      *)
(* comparison logits >= thresholds[i] is the comparison of the two         *)
(* probabilities.  A probability of the ladder and a ratio are pairs       *)
(* <<numerator, denominator>> compared by cross-multiplication.  Python    *)
(* arrays are functions on 0..(n-1), and a negative index wraps as in      *)
(* numpy.  The interpolated operating point (np.interp), the printed       *)
(* report and the FROC file are derived from the two returned vectors and  *)
(* feed nothing back; they are outside the model.                          *)
(***************************************************************************)
EXTENDS Integers, Sequences, FiniteSets

\* ---- bounds of the model ----
Height == 2
Width == 6
MaxBlobPixels == 3
MaxThresholds == 3
MaxImages == 2

\* ---- constants of the program ----
NUM_THRESHOLDS == 50
ProbHi == 9999
ProbLo == 1
ACCEPTANCE_NUM == 1
ACCEPTANCE_DEN == 10
BACKGROUND == 0
TISSUE == 127
MASS == 255

ACCEPTANCE_RATIO == <<ACCEPTANCE_NUM, ACCEPTANCE_DEN>>

Pixels == (0..(Height - 1)) \X (0..(Width - 1))

\* ---- numpy helpers ----
zeros(n) == [i \in 0..(n - 1) |-> 0]

PyIndex(i, n) == IF i < 0 THEN i + n ELSE i

RatioGE(num, den, r) == num * r[2] >= r[1] * den

\* the ladder run from 0.0001 up to 0.9999
linspace_Ascending(n) ==
    [i \in 0..(n - 1) |->
        IF n = 1 THEN <<ProbLo, 1>>
        ELSE <<ProbLo * (n - 1) + (ProbHi - ProbLo) * i, n - 1>>]

\* np.linspace(0.9999, 0.0001, n) in units of 0.0001: start + i * (stop - start) / (n - 1)
\* as <<numerator, denominator>>; n = 1 gives the start alone
linspace(n) ==
    [i \in 0..(n - 1) |->
        IF n = 1 THEN <<ProbHi, 1>>
        ELSE <<ProbHi * (n - 1) - (ProbHi - ProbLo) * i, n - 1>>]

\* logits[p] >= thresholds[i], both read as probabilities
LogitGE(x, thr) == x * thr[2] >= thr[1]

\* the comparison made strict
post_Strict(logits, label, threshold) ==
    LET ones == [p \in Pixels |-> TISSUE]
        above == [p \in Pixels |-> IF logits[p] * threshold[2] > threshold[1] THEN MASS ELSE ones[p]]
    IN  [p \in Pixels |-> IF label[p] = BACKGROUND THEN 0 ELSE above[p]]

post(logits, label, threshold) ==
    LET ones == [p \in Pixels |-> TISSUE]
        above == [p \in Pixels |-> IF LogitGE(logits[p], threshold) THEN MASS ELSE ones[p]]
    IN  [p \in Pixels |-> IF label[p] = BACKGROUND THEN 0 ELSE above[p]]

\* ---- ndimage.label with the full 3x3 structure ----
Neighbours(p, q) ==
    /\ p # q
    /\ p[1] - q[1] \in {-1, 0, 1}
    /\ p[2] - q[2] \in {-1, 0, 1}

RECURSIVE Grow(_, _)
Grow(region, mask) ==
    LET more == {q \in mask \ region : \E p \in region : Neighbours(p, q)}
    IN  IF more = {} THEN region ELSE Grow(region \cup more, mask)

\* first pixel of a mask in raster order
First(mask) ==
    CHOOSE p \in mask : \A q \in mask : p[1] < q[1] \/ (p[1] = q[1] /\ p[2] <= q[2])

\* the regions of a mask, numbered from 1 in raster order of their first pixel
RECURSIVE ndimage_label(_)
ndimage_label(mask) ==
    IF mask = {} THEN <<>>
    ELSE LET region == Grow({First(mask)}, mask)
         IN  <<region>> \o ndimage_label(mask \ region)

Where(array, value) == {p \in Pixels : array[p] = value}

ArrayMax(array) == CHOOSE v \in {array[p] : p \in Pixels} : \A p \in Pixels : array[p] <= v

\* ---- compute_FROC ----
thresholds(num_thresholds) == linspace(num_thresholds)

\* TPs[threshold] after the lesion branch of one iteration
CountTPs(label, segmentation) ==
    LET lesions == ndimage_label(Where(label, MASS))
        Hit(lesion_id) ==
            LET lesion_area == Cardinality(lesions[lesion_id])
                overlap_area == Cardinality(lesions[lesion_id] \cap Where(segmentation, MASS))
            IN  RatioGE(overlap_area, lesion_area, ACCEPTANCE_RATIO)
    IN  Cardinality({lesion_id \in 1..Len(lesions) : Hit(lesion_id)})

\* the clamp left out
ClampFPs_NoClamp(FPs, threshold, num_FPs, num_thresholds) ==
    [FPs EXCEPT ![threshold] = @ + num_FPs]

\* the count added on top of the previous slot
ClampFPs_Cumulative(FPs, threshold, num_FPs, num_thresholds) ==
    [FPs EXCEPT ![threshold] = @ + num_FPs + FPs[PyIndex(threshold - 1, num_thresholds)]]

\* FPs after the no-lesion branch of one iteration
ClampFPs(FPs, threshold, num_FPs, num_thresholds) ==
    LET added == [FPs EXCEPT ![threshold] = @ + num_FPs]
        prev == added[PyIndex(threshold - 1, num_thresholds)]
    IN  IF added[threshold] < prev THEN [added EXCEPT ![threshold] = prev] ELSE added

\* the blobs counted as FPs on every image
FROCIteration_CountsBoth(st, threshold, logits, label, num_thresholds, acceptance_ratio) ==
    LET segmentation == post(logits, label, thresholds(num_thresholds)[threshold])
        counted == [st EXCEPT !.segmentation = segmentation,
                              !.FPs = ClampFPs(st.FPs, threshold,
                                               Len(ndimage_label(Where(segmentation, MASS))),
                                               num_thresholds)]
    IN  IF ArrayMax(label) = MASS
        THEN [counted EXCEPT !.num_lesions = Len(ndimage_label(Where(label, MASS))),
                             !.TPs[threshold] = @ + CountTPs(label, segmentation)]
        ELSE counted

\* one iteration of the loop over the ladder; st = [FPs, TPs, num_lesions, segmentation]
FROCIteration(st, threshold, logits, label, num_thresholds, acceptance_ratio) ==
    LET segmentation == post(logits, label, thresholds(num_thresholds)[threshold])
    IN  IF ArrayMax(label) = MASS
        THEN [st EXCEPT !.segmentation = segmentation,
                        !.num_lesions = Len(ndimage_label(Where(label, MASS))),
                        !.TPs[threshold] = @ + CountTPs(label, segmentation)]
        ELSE [st EXCEPT !.segmentation = segmentation,
                        !.FPs = ClampFPs(st.FPs, threshold,
                                         Len(ndimage_label(Where(segmentation, MASS))),
                                         num_thresholds)]

FROCStart(num_thresholds) ==
    [FPs |-> zeros(num_thresholds), TPs |-> zeros(num_thresholds), num_lesions |-> 0,
     segmentation |-> [p \in Pixels |-> 0]]

\* for threshold in range(lo, hi): the iterations in ladder order.  The range is run as
\* two halves, the first computed (the test on it is always true) before the second
\* starts, which keeps the evaluation shallow for the NUM_THRESHOLDS iterations of main.
RECURSIVE FROCLoop(_, _, _, _, _, _, _)
FROCLoop(st, lo, hi, logits, label, num_thresholds, acceptance_ratio) ==
    IF hi <= lo THEN st
    ELSE IF hi = lo + 1
    THEN FROCIteration(st, lo, logits, label, num_thresholds, acceptance_ratio)
    ELSE LET mid == (lo + hi) \div 2
             first == FROCLoop(st, lo, mid, logits, label, num_thresholds, acceptance_ratio)
         IN  IF first.num_lesions >= 0
             THEN FROCLoop(first, mid, hi, logits, label, num_thresholds, acceptance_ratio)
             ELSE first

compute_FROC(logits, label, num_thresholds, acceptance_ratio) ==
    LET st == FROCLoop(FROCStart(num_thresholds), 0, num_thresholds, logits, label,
                       num_thresholds, acceptance_ratio)
    IN  [FPs |-> st.FPs, TPs |-> st.TPs, num_lesions |-> st.num_lesions]

\* ---- the images the model feeds in ----
LevelHi == ProbHi
LevelMid == (ProbHi + ProbLo) \div 2
LevelLo == ProbLo
Levels == {LevelLo, LevelMid, LevelHi}

BlobSites == {<<0, 0>>, <<0, 1>>, <<0, 2>>, <<1, 1>>, <<1, 3>>}

\* up to MaxBlobPixels tissue or lesion pixels at the blob sites, on background
BlobImages ==
    UNION {
        UNION {
            { [label |-> [p \in Pixels |-> IF p \in S THEN lab[p] ELSE BACKGROUND],
               logits |-> [p \in Pixels |-> IF p \in S THEN heat[p] ELSE LevelHi]]
              : heat \in [S -> Levels] }
            : lab \in [S -> {TISSUE, MASS}] }
        : S \in {T \in SUBSET BlobSites : Cardinality(T) <= MaxBlobPixels} }

Raster(p) == p[1] * Width + p[2]

\* one lesion of the first a pixels in raster order inside tissue, the first o
\* pixels predicted at the top level
AreaImages ==
    { [label |-> [p \in Pixels |-> IF Raster(p) < a THEN MASS ELSE TISSUE],
       logits |-> [p \in Pixels |-> IF Raster(p) < o \/ Raster(p) >= a THEN LevelHi ELSE LevelLo]]
      : a \in 1..(Height * Width), o \in 0..(Height * Width) }

Images == BlobImages \cup AreaImages

Ratios == {<<1, 10>>, <<1, 2>>, <<1, 1>>}

\* the images of the evaluation set: blobs of one kind on the first row, the outer
\* two at the top level
DatasetSites == {p \in BlobSites : p[1] = 0}

DatasetImages ==
    {im \in BlobImages :
        /\ \A p \in Pixels : im.label[p] # BACKGROUND => p \in DatasetSites
        /\ \A p, q \in Pixels : im.label[p] = BACKGROUND \/ im.label[q] = BACKGROUND
                                 \/ im.label[p] = im.label[q]
        /\ \A p \in DatasetSites :
              /\ im.logits[p] # LevelLo
              /\ p[2] # 1 => im.logits[p] = LevelHi}

\* ---- main ----
\* numpy's true division of a float array by an integer: x / 0 warns and yields
\* nan for x = 0 and inf otherwise
Divide(x, d) ==
    IF d = 0 THEN [kind |-> IF x = 0 THEN "nan" ELSE "inf", num |-> x, den |-> d]
    ELSE [kind |-> "finite", num |-> x, den |-> d]

\* the shapes numpy accepts in total += im_vector, total of length NUM_THRESHOLDS
Broadcasts(n) == n = NUM_THRESHOLDS \/ n = 1

\* total += im_vector, im_vector of length n
IAdd(total, im_vector, n) ==
    [i \in DOMAIN total |-> total[i] + im_vector[IF n = 1 THEN 0 ELSE i]]

\* every image counted as normal
CountNormal_Always(num_normal_images, im_lesions) == num_normal_images + 1

\* num_normal_images after one image
CountNormal(num_normal_images, im_lesions) ==
    IF im_lesions = 0 THEN num_normal_images + 1 ELSE num_normal_images

\* what the label itself says of an image, kept beside the program's counters
LabelFacts(lab, im) ==
    [has255 |-> \E p \in Pixels : lab[p] = MASS,
     lesions |-> Len(ndimage_label(Where(lab, MASS))),
     FPs |-> im.FPs, TPs |-> im.TPs]

VARIABLES pc, logits, label, num_thresholds, acceptance_ratio, threshold, call,
          FPs, TPs, num_lesions, num_normal_images, im_FPs, im_TPs, im_lesions,
          sensitivity, FP_per_image, error, seen

frocVars == <<logits, label, num_thresholds, acceptance_ratio, threshold, call>>
mainVars == <<FPs, TPs, num_lesions, num_normal_images, im_FPs, im_TPs, im_lesions,
              sensitivity, FP_per_image, error, seen>>
vars == <<pc, frocVars, mainVars>>

\* lines 138-142 of main
InitMainVars ==
    /\ FPs = zeros(NUM_THRESHOLDS)
    /\ TPs = zeros(NUM_THRESHOLDS)
    /\ num_normal_images = 0
    /\ num_lesions = 0
    /\ im_FPs = <<>>
    /\ im_TPs = <<>>
    /\ im_lesions = 0
    /\ sensitivity = <<>>
    /\ FP_per_image = <<>>
    /\ error = "none"
    /\ seen = <<>>

\* ---- compute_FROC called on its own, one iteration of its loop per step ----
InitFROC ==
    /\ pc = "froc_loop"
    /\ \E im \in Images : logits = im.logits /\ label = im.label
    /\ num_thresholds \in 1..MaxThresholds
    /\ acceptance_ratio \in Ratios
    /\ threshold = 0
    /\ call = FROCStart(num_thresholds)
    /\ InitMainVars

FROCStep ==
    /\ pc = "froc_loop"
    /\ threshold < num_thresholds
    /\ call' = FROCIteration(call, threshold, logits, label, num_thresholds, acceptance_ratio)
    /\ threshold' = threshold + 1
    /\ UNCHANGED <<pc, logits, label, num_thresholds, acceptance_ratio, mainVars>>

FROCReturn ==
    /\ pc = "froc_loop"
    /\ threshold >= num_thresholds
    /\ pc' = "froc_return"
    /\ UNCHANGED <<frocVars, mainVars>>

NextFROC == FROCStep \/ FROCReturn

SpecFROC == InitFROC /\ [][NextFROC]_vars

\* ---- main: the pass over the csv rows, then the final metrics ----
MainThresholds == (1..MaxThresholds) \cup {NUM_THRESHOLDS}

MainRatios == {ACCEPTANCE_RATIO, <<1, 2>>}

Init ==
    /\ pc = "rows"
    /\ num_thresholds \in MainThresholds
    /\ acceptance_ratio \in MainRatios
    /\ logits = [p \in Pixels |-> LevelLo]
    /\ label = [p \in Pixels |-> BACKGROUND]
    /\ threshold = 0
    /\ call = FROCStart(num_thresholds)
    /\ InitMainVars

\* one csv row: read the image, predict, compute_FROC, accumulate
ProcessImage ==
    /\ pc = "rows"
    /\ Len(seen) < MaxImages
    /\ \E image \in DatasetImages :
          LET im == compute_FROC(image.logits, image.label, num_thresholds, acceptance_ratio)
          IN  /\ logits' = image.logits
              /\ label' = image.label
              /\ im_FPs' = im.FPs
              /\ im_TPs' = im.TPs
              /\ im_lesions' = im.num_lesions
              /\ IF Broadcasts(num_thresholds)
                 THEN /\ FPs' = IAdd(FPs, im.FPs, num_thresholds)
                      /\ TPs' = IAdd(TPs, im.TPs, num_thresholds)
                      /\ num_lesions' = num_lesions + im.num_lesions
                      /\ num_normal_images' = CountNormal(num_normal_images, im.num_lesions)
                      /\ seen' = Append(seen, LabelFacts(image.label, im))
                      /\ UNCHANGED <<pc, error>>
                 ELSE /\ pc' = "raised"
                      /\ error' = "ValueError"
                      /\ UNCHANGED <<FPs, TPs, num_lesions, num_normal_images, seen>>
    /\ UNCHANGED <<num_thresholds, acceptance_ratio, threshold, call, sensitivity, FP_per_image>>

\* the rows are exhausted: lines 175-195
Finalize ==
    /\ pc = "rows"
    /\ sensitivity' = [i \in DOMAIN TPs |-> Divide(TPs[i], num_lesions)]
    /\ FP_per_image' = [i \in DOMAIN FPs |-> Divide(FPs[i], num_normal_images)]
    /\ pc' = "returned"
    /\ UNCHANGED <<frocVars, FPs, TPs, num_lesions, num_normal_images, im_FPs, im_TPs,
                   im_lesions, error, seen>>

Next == ProcessImage \/ Finalize

Spec == Init /\ [][Next]_vars


\* ======================= the claims =======================
LesionBearing(lab) == \E p \in Pixels : lab[p] = MASS

Ladder == linspace(num_thresholds)

\* the segmentation of the image in hand at ladder index i
SegmentationAt(i) == post(logits, label, Ladder[i])

\* the raw number of 8-connected 255-regions of the segmentation at ladder index i
RawCount(i) == Len(ndimage_label(Where(SegmentationAt(i), MASS)))

Max2(a, b) == IF a >= b THEN a ELSE b

Indices == 0..(num_thresholds - 1)

RECURSIVE SumLesions(_)
SumLesions(s) == IF s = <<>> THEN 0 ELSE s[1].lesions + SumLesions(Tail(s))

RECURSIVE SumFPsAt(_, _)
SumFPsAt(s, i) == IF s = <<>> THEN 0 ELSE s[1].FPs[i] + SumFPsAt(Tail(s), i)

RECURSIVE SumTPsAt(_, _)
SumTPsAt(s, i) == IF s = <<>> THEN 0 ELSE s[1].TPs[i] + SumTPsAt(Tail(s), i)

\* C1: on a lesion-bearing image, TPs[i] returned by compute_FROC is the number of
\* 8-connected lesions whose overlap with the 255-pixels of the segmentation at index i
\* is at least the acceptance_ratio ARGUMENT times the lesion's area, for every ratio.
C1_TPsFollowTheArgument ==
    (pc = "froc_return" /\ LesionBearing(label)) =>
        \A i \in Indices :
            LET regions == ndimage_label(Where(label, MASS))
                covered == Where(SegmentationAt(i), MASS)
            IN  call.TPs[i] =
                    Cardinality({k \in 1..Len(regions) :
                        Cardinality(regions[k] \cap covered) * acceptance_ratio[2]
                            >= acceptance_ratio[1] * Cardinality(regions[k])})

\* C2: on a lesion-free image the FPs returned by compute_FROC never decrease along
\* the ladder: FPs[i] >= FPs[i-1] for 0 < i < num_thresholds.
C2_FPsNonDecreasing ==
    (pc = "froc_return" /\ ~LesionBearing(label)) =>
        \A i \in Indices \ {0} : call.FPs[i] >= call.FPs[i - 1]

\* a lesion-free image whose raw count drops along the ladder has been swept
C2_Witness ==
    /\ pc = "froc_return"
    /\ ~LesionBearing(label)
    /\ \E i \in Indices \ {0} : RawCount(i) < RawCount(i - 1)

\* C3: a pass that ends with no lesion or no normal image makes main fail explicitly;
\* main never returns a sensitivity or FP-per-image value that is NaN or infinite
\* (stated for main called with its default arguments).
C3_DegenerateDatasetFails ==
    (pc = "returned" /\ num_thresholds = NUM_THRESHOLDS /\ acceptance_ratio = ACCEPTANCE_RATIO) =>
        /\ num_lesions # 0
        /\ num_normal_images # 0
        /\ \A i \in DOMAIN sensitivity : sensitivity[i].kind = "finite"
        /\ \A i \in DOMAIN FP_per_image : FP_per_image[i].kind = "finite"

\* C4: the result of compute_FROC has one active side: a label with a 255 pixel gives
\* FPs all zero; a label without one gives TPs all zero and a lesion count of 0.
C4_OneActiveSide ==
    pc = "froc_return" =>
        IF LesionBearing(label)
        THEN \A i \in Indices : call.FPs[i] = 0
        ELSE /\ \A i \in Indices : call.TPs[i] = 0
             /\ call.num_lesions = 0

\* a lesion-bearing image with tissue predicted as mass next to a detected lesion
C4_Witness ==
    /\ pc = "froc_return"
    /\ LesionBearing(label)
    /\ \E p \in Pixels : label[p] = TISSUE /\ call.segmentation[p] = MASS
    /\ \E i \in Indices : call.TPs[i] > 0

\* C5: post gives 0 where the label is 0 whatever the logit, 255 where the label is not
\* 0 and logit >= threshold (inclusive), 127 at every other pixel, and nothing else.
C5_PostThreeValued ==
    threshold > 0 =>
        LET thr == Ladder[threshold - 1]
        IN  \A p \in Pixels :
                call.segmentation[p] =
                    IF label[p] = 0 THEN 0
                    ELSE IF logits[p] * thr[2] >= thr[1] THEN 255 ELSE 127

\* a segmentation with a background pixel above the threshold, a pixel exactly at the
\* threshold and a tissue pixel below it
C5_Witness ==
    /\ threshold > 0
    /\ LET thr == Ladder[threshold - 1]
       IN  /\ \E p \in Pixels : label[p] = 0 /\ logits[p] * thr[2] >= thr[1]
           /\ \E p \in Pixels : label[p] # 0 /\ logits[p] * thr[2] = thr[1]
           /\ \E p \in Pixels : label[p] # 0 /\ logits[p] * thr[2] < thr[1]

\* C6: for any positive num_thresholds passed to main, the totals and the returned
\* vectors have length num_thresholds and slot i of the totals is the sum of slot i of
\* the per-image vectors.
C6_SizedByTheArgument ==
    /\ pc # "raised"
    /\ pc = "returned" =>
          /\ DOMAIN FPs = Indices
          /\ DOMAIN TPs = Indices
          /\ DOMAIN sensitivity = Indices
          /\ DOMAIN FP_per_image = Indices
          /\ \A i \in Indices : FPs[i] = SumFPsAt(seen, i) /\ TPs[i] = SumTPsAt(seen, i)

\* C7: with the default num_thresholds, after any prefix of the images each image has
\* been folded in once: the lesion total is the sum of the images' lesion counts, the
\* normal-image counter is the number of images without a 255 pixel, and it adds up
\* with the number of lesion-bearing images to the number of images processed.
C7_FoldedInOnce ==
    (num_thresholds = NUM_THRESHOLDS /\ pc \in {"rows", "returned"}) =>
        /\ num_lesions = SumLesions(seen)
        /\ num_normal_images = Cardinality({k \in 1..Len(seen) : ~seen[k].has255})
        /\ num_normal_images + Cardinality({k \in 1..Len(seen) : seen[k].has255}) = Len(seen)

\* a two-lesion image and a normal image have both been folded in
C7_Witness ==
    /\ num_thresholds = NUM_THRESHOLDS
    /\ pc = "rows"
    /\ \E k \in 1..Len(seen) : seen[k].lesions = 2
    /\ \E k \in 1..Len(seen) : ~seen[k].has255

\* C8: with at least one normal image, the FP_per_image vector main derives never
\* decreases along the ladder, whatever the order and mix of images.
C8_FPPerImageNonDecreasing ==
    (pc = "returned" /\ num_normal_images >= 1) =>
        \A i \in DOMAIN FP_per_image \ {0} :
            FP_per_image[i].num * FP_per_image[i - 1].den
                >= FP_per_image[i - 1].num * FP_per_image[i].den

\* a lesion-bearing image and a normal image whose raw count drops were aggregated
C8_Witness ==
    /\ pc = "returned"
    /\ num_thresholds = NUM_THRESHOLDS
    /\ \E k \in 1..Len(seen) : seen[k].has255
    /\ \E k \in 1..Len(seen) : ~seen[k].has255 /\ seen[k].FPs[0] = 2
    /\ FP_per_image[0].num > 0

\* C9 as stated: on a lesion-free image FPs[0] is the raw count at index 0, the slot the
\* comparison at index 0 reads (index -1) is the still-zero last slot for every
\* num_thresholds >= 1, and FPs[i] = max(raw count at i, FPs[i-1]) for i > 0.  The slot
\* read at index 0 is not written by that iteration's clamp, so its value after the
\* iteration is the value the comparison read.
C9_AsStated ==
    ~LesionBearing(label) =>
        /\ threshold = 1 => call.FPs[PyIndex(0 - 1, num_thresholds)] = 0
        /\ pc = "froc_return" =>
              /\ call.FPs[0] = RawCount(0)
              /\ \A i \in Indices \ {0} : call.FPs[i] = Max2(RawCount(i), call.FPs[i - 1])

\* C9 amended: the slot read at index 0 is the still-zero last slot when
\* num_thresholds >= 2 and slot 0 itself, already holding the raw count, when
\* num_thresholds = 1; either way FPs[0] is the raw count and the clamp is sequential.
C9_SequentialClamp ==
    ~LesionBearing(label) =>
        /\ (threshold = 1 /\ num_thresholds >= 2) =>
              call.FPs[PyIndex(0 - 1, num_thresholds)] = 0
        /\ (threshold = 1 /\ num_thresholds = 1) =>
              /\ PyIndex(0 - 1, num_thresholds) = 0
              /\ call.FPs[PyIndex(0 - 1, num_thresholds)] = RawCount(0)
        /\ pc = "froc_return" =>
              /\ call.FPs[0] = RawCount(0)
              /\ \A i \in Indices \ {0} : call.FPs[i] = Max2(RawCount(i), call.FPs[i - 1])

\* a lesion-free image with a blob at index 0 whose raw count later drops below the
\* clamped predecessor
C9_Witness ==
    /\ pc = "froc_return"
    /\ ~LesionBearing(label)
    /\ RawCount(0) > 0
    /\ \E i \in Indices \ {0} : RawCount(i) < call.FPs[i - 1] /\ call.FPs[i] = call.FPs[i - 1]

\* C10: on a lesion-bearing image the cutoffs strictly decrease along the ladder, the
\* 255-pixels of the segmentation only grow, the TPs returned by compute_FROC never
\* decrease and no TPs[i] exceeds the returned lesion count.
C10_TPsNonDecreasing ==
    (pc = "froc_return" /\ LesionBearing(label)) =>
        /\ \A i \in Indices \ {0} :
              /\ Ladder[i][1] * Ladder[i - 1][2] < Ladder[i - 1][1] * Ladder[i][2]
              /\ Where(SegmentationAt(i - 1), MASS) \subseteq Where(SegmentationAt(i), MASS)
              /\ call.TPs[i] >= call.TPs[i - 1]
        /\ \A i \in Indices : call.TPs[i] <= call.num_lesions

\* a lesion-bearing image whose detections grow along the ladder
C10_Witness ==
    /\ pc = "froc_return"
    /\ LesionBearing(label)
    /\ call.num_lesions = 2
    /\ call.TPs[0] = 0
    /\ \E i \in Indices : call.TPs[i] = 1
    /\ call.TPs[num_thresholds - 1] = 2

=============================================================================
